---- MODULE Spec2Model ----
(***************************************************************************)
(* Model of the order book of centralized-exchange-rs                      *)
(* (order-book/src/lib.rs, core-types/src/lib.rs).                         *)
(*                                                                         *)
(* The book is two price-keyed maps of FIFO queues (bids, asks) and an     *)
(* index from order id to price (order_locations).  Every public method of *)
(* OrderBook is one operator over a book record, translated statement by   *)
(* statement, and one action that applies it to an input drawn from a      *)
(* bounded set.  Decimal amounts and prices are exact, so they are modelled *)
(* as integers.  Option<T> is a sequence of length at most one.            *)
(* The fields user_id, market_id and timestamp of Order, and id, market_id *)
(* and timestamp of Trade, are never read by the book and are left out.    *)
(***************************************************************************)
EXTENDS Integers, Sequences, FiniteSets

VARIABLES bids, asks, order_locations, arrival, removed, result

vars == <<bids, asks, order_locations, arrival, removed, result>>

\* ------------------------------------------------------------------------
\* Bounds of the model
\* ------------------------------------------------------------------------
MaxPrice == 2

MaxId == 2

MaxAmount == 3

Prices == 1..MaxPrice

Ids == 1..MaxId

\* ------------------------------------------------------------------------
\* core-types
\* ------------------------------------------------------------------------
Side == {"Buy", "Sell"}

OrderType == {"Limit", "Market"}

None == <<>>

Some(x) == <<x>>

IsSome(o) == Len(o) = 1

Unwrap(o) == o[1]

Order(id, side, order_type, amount, filled_amount, price) ==
  [id |-> id, side |-> side, order_type |-> order_type, amount |-> amount,
   filled_amount |-> filled_amount, price |-> price]

Trade(taker_order_id, maker_order_id, amount, price, taker_side) ==
  [taker_order_id |-> taker_order_id, maker_order_id |-> maker_order_id,
   amount |-> amount, price |-> price, taker_side |-> taker_side]

\* ------------------------------------------------------------------------
\* BTreeMap / HashMap / VecDeque / Decimal helpers
\* ------------------------------------------------------------------------
EmptyMap == [k \in {} |-> 0]

MapGet(m, k) == IF k \in DOMAIN m THEN Some(m[k]) ELSE None

MapInsert(m, k, v) == [q \in (DOMAIN m) \cup {k} |-> IF q = k THEN v ELSE m[q]]

MapRemove(m, k) == [q \in (DOMAIN m) \ {k} |-> m[q]]

\* mutant of SeqRemove: the element stays in the queue
SeqRemoveKeep(s, index) == s

\* VecDeque::remove(index), 1-based here; out of bounds it removes nothing
SeqRemove(s, index) ==
  IF index \in 1..Len(s)
  THEN [j \in 1..(Len(s) - 1) |-> IF j < index THEN s[j] ELSE s[j + 1]]
  ELSE s

\* iter().position(|o| o.id == order_id): 0 when there is none
Position(orders, order_id) ==
  IF \E j \in 1..Len(orders) : orders[j].id = order_id
  THEN CHOOSE j \in 1..Len(orders) :
         /\ orders[j].id = order_id
         /\ \A k \in 1..(j - 1) : orders[k].id # order_id
  ELSE 0

\* F applied to the value of v, v evaluated once (a let-binding by value)
Let(v, F(_)) == CHOOSE y \in {F(x) : x \in {v}} : TRUE

DecimalMin(a, b) == IF a <= b THEN a ELSE b

RECURSIVE SortAscending(_)
SortAscending(S) ==
  IF S = {} THEN <<>>
  ELSE LET m == CHOOSE x \in S : \A y \in S : x <= y
       IN <<m>> \o SortAscending(S \ {m})

RECURSIVE SortDescending(_)
SortDescending(S) ==
  IF S = {} THEN <<>>
  ELSE LET m == CHOOSE x \in S : \A y \in S : x >= y
       IN <<m>> \o SortDescending(S \ {m})

\* ------------------------------------------------------------------------
\* OrderBook
\* ------------------------------------------------------------------------
Book(b, a, l) == [bids |-> b, asks |-> a, order_locations |-> l]

new == Book(EmptyMap, EmptyMap, EmptyMap)

\* entry(price).or_insert_with(VecDeque::new).push_back(order)
PushBackAt(m, price, order) ==
  MapInsert(m, price, Append(IF price \in DOMAIN m THEN m[price] ELSE <<>>, order))

add_bid(book, order) ==
  LET price == Unwrap(order.price)
  IN [book EXCEPT !.order_locations = MapInsert(@, order.id, price),
                  !.bids = PushBackAt(@, price, order)]

add_ask(book, order) ==
  LET price == Unwrap(order.price)
  IN [book EXCEPT !.order_locations = MapInsert(@, order.id, price),
                  !.asks = PushBackAt(@, price, order)]

SideMap(book, side) == IF side = "Buy" THEN book.bids ELSE book.asks

WithSideMap(book, side, m) ==
  IF side = "Buy" THEN [book EXCEPT !.bids = m] ELSE [book EXCEPT !.asks = m]

\* mutant of DropIfEmpty: the emptied level is left in the map
DropIfEmptyKeep(m, price) == m

\* if orders_at_price.is_empty() { map.remove(&price) }

DropIfEmpty(m, price) ==
  IF price \in DOMAIN m /\ m[price] = <<>> THEN MapRemove(m, price) ELSE m

\* mutant of ClearIndex: the index entry is kept
ClearIndexKeep(book, order_id) == book

\* self.order_locations.remove(&order_id), on both paths of remove_order
ClearIndex(book, order_id) == [book EXCEPT !.order_locations = MapRemove(@, order_id)]

remove_order(book, order_id, side) ==
  IF order_id \notin DOMAIN book.order_locations
  THEN [book |-> book, ret |-> None]
  ELSE LET price == book.order_locations[order_id]
           book_side == MapGet(SideMap(book, side), price)
           index == IF IsSome(book_side) THEN Position(Unwrap(book_side), order_id) ELSE 0
       IN IF IsSome(book_side) /\ index # 0
          THEN LET orders_at_price == Unwrap(book_side)
                   removed_order == orders_at_price[index]
                   m == MapInsert(SideMap(book, side), price, SeqRemove(orders_at_price, index))
                   b2 == WithSideMap(book, side, DropIfEmpty(m, price))
               IN [book |-> ClearIndex(b2, order_id), ret |-> Some(removed_order)]
          ELSE [book |-> ClearIndex(book, order_id), ret |-> None]

remove_bid(book, order_id) == remove_order(book, order_id, "Buy")

remove_ask(book, order_id) == remove_order(book, order_id, "Sell")

\* mutant of AmountError: an amount above the order's amount is accepted
AmountErrorLax(order, new_amount) ==
  IF new_amount <= 0 THEN "InvalidAmount"
  ELSE IF new_amount < order.filled_amount THEN "BelowFilled"
  ELSE "Ok"

\* the two range checks of update_order_amount, in the code's order
AmountError(order, new_amount) ==
  IF new_amount <= 0 \/ new_amount > order.amount THEN "InvalidAmount"
  ELSE IF new_amount < order.filled_amount THEN "BelowFilled"
  ELSE "Ok"

\* mutant of SetAmount: the amended order is moved to the back of its queue
SetAmountRequeue(orders_at_price, index, new_amount) ==
  Append(SeqRemove(orders_at_price, index), [orders_at_price[index] EXCEPT !.amount = new_amount])

\* order.amount = new_amount, through the iter_mut reference into the queue
SetAmount(orders_at_price, index, new_amount) ==
  [orders_at_price EXCEPT ![index].amount = new_amount]

update_order_amount(book, order_id, new_amount, side) ==
  IF order_id \notin DOMAIN book.order_locations
  THEN [book |-> book, ret |-> "OrderIdNotFound"]
  ELSE LET price == book.order_locations[order_id]
           book_side == MapGet(SideMap(book, side), price)
           index == IF IsSome(book_side) THEN Position(Unwrap(book_side), order_id) ELSE 0
       IN IF IsSome(book_side) /\ index # 0
          THEN LET orders_at_price == Unwrap(book_side)
                   order == orders_at_price[index]
                   err == AmountError(order, new_amount)
               IN IF err # "Ok"
                  THEN [book |-> book, ret |-> err]
                  ELSE [book |-> WithSideMap(book, side,
                                   MapInsert(SideMap(book, side), price,
                                     SetAmount(orders_at_price, index, new_amount))),
                        ret |-> "Ok"]
          ELSE [book |-> book, ret |-> "NotAtPriceLevel"]

update_bid_amount(book, order_id, new_amount) ==
  update_order_amount(book, order_id, new_amount, "Buy")

update_ask_amount(book, order_id, new_amount) ==
  update_order_amount(book, order_id, new_amount, "Sell")

\* ------------------------------------------------------------------------
\* match_order
\* ------------------------------------------------------------------------
\* mutant of AskPrices: the ask levels are walked highest price first
AskPricesDescending(m) == SortDescending(DOMAIN m)

\* ask_prices: keys().cloned().collect() then sort()

AskPrices(m) == SortAscending(DOMAIN m)

\* bid_prices: keys().cloned().collect() then sort_by(|a, b| b.cmp(a))
BidPrices(m) == SortDescending(DOMAIN m)

\* mutant of PriceBreak: the loop over price levels ignores the limit price
PriceBreakNever(taker_order, price) == FALSE

\* mutant of PriceBreak: the loop also stops at the limit price itself
PriceBreakStrict(taker_order, price) ==
  /\ taker_order.order_type = "Limit"
  /\ IF taker_order.side = "Buy"
     THEN price >= Unwrap(taker_order.price)
     ELSE price <= Unwrap(taker_order.price)

\* the Limit/Market price check at the head of the loop over price levels

PriceBreak(taker_order, price) ==
  /\ taker_order.order_type = "Limit"
  /\ IF taker_order.side = "Buy"
     THEN price > Unwrap(taker_order.price)
     ELSE price < Unwrap(taker_order.price)

\* mutant of FillAmount: every trade is for one unit
FillAmountUnit(taker_remaining, maker_remaining) == 1

\* mutant of FillAmount: the maker is always filled whole
FillAmountMaker(taker_remaining, maker_remaining) == maker_remaining

\* let fill_amount = taker_remaining.min(maker_remaining)

FillAmount(taker_remaining, maker_remaining) == DecimalMin(taker_remaining, maker_remaining)

\* mutant of RemoveFullyFilled: the marked indices are removed in ascending order
RECURSIVE RemoveFullyFilledForward(_, _)
RemoveFullyFilledForward(orders, orders_fully_filled) ==
  IF orders_fully_filled = <<>> THEN orders
  ELSE RemoveFullyFilledForward(SeqRemove(orders, orders_fully_filled[1]),
                                Tail(orders_fully_filled))

\* for index in orders_fully_filled.into_iter().rev() { orders_at_price.remove(index) }
RECURSIVE RemoveFullyFilled(_, _)
RemoveFullyFilled(orders, orders_fully_filled) ==
  IF orders_fully_filled = <<>> THEN orders
  ELSE RemoveFullyFilled(SeqRemove(orders, orders_fully_filled[Len(orders_fully_filled)]),
                         SubSeq(orders_fully_filled, 1, Len(orders_fully_filled) - 1))

\* The loop over the makers of one price level.  w carries the level's queue
\* (mutated in place through iter_mut), the taker, the vectors of the result
\* and the index; w.fills is a ghost log of the taker and maker before and
\* after each trade.
RECURSIVE WalkLevel(_, _, _)
WalkLevel(w, price, index) ==
  IF index > Len(w.orders) THEN w
  ELSE
    LET maker_order == w.orders[index]
        taker_remaining == w.taker_order.amount - w.taker_order.filled_amount
    IN IF taker_remaining <= 0 THEN w
       ELSE
         LET maker_remaining == maker_order.amount - maker_order.filled_amount
             fill_amount == FillAmount(taker_remaining, maker_remaining)
         IN IF fill_amount <= 0 THEN WalkLevel(w, price, index + 1)
            ELSE
              LET taker2 == [w.taker_order EXCEPT !.filled_amount = @ + fill_amount]
                  maker2 == [maker_order EXCEPT !.filled_amount = @ + fill_amount]
                  trade == Trade(taker2.id, maker2.id, fill_amount, price, taker2.side)
                  full == maker2.filled_amount >= maker2.amount
                  w2 == [w EXCEPT
                           !.orders[index] = maker2,
                           !.taker_order = taker2,
                           !.trades = Append(@, trade),
                           !.orders_fully_filled = IF full THEN Append(@, index) ELSE @,
                           !.removed_maker_orders = IF full THEN Append(@, maker2.id) ELSE @,
                           !.order_locations = IF full THEN MapRemove(@, maker2.id) ELSE @,
                           !.updated_maker_orders = IF full THEN @ ELSE Append(@, maker2),
                           !.fills = Append(@, [taker_before |-> w.taker_order, taker_after |-> taker2,
                                                maker_before |-> maker_order, maker_after |-> maker2])]
              IN Let(w2, LAMBDA v : WalkLevel(v, price, index + 1))

\* The body of the loop over price levels: walk the level, remove the fully
\* filled makers, drop the level when it is empty.
MatchLevel(w, price) ==
  IF price \notin DOMAIN w.side_map THEN w
  ELSE
    LET Walked(w0) == WalkLevel(w0, price, 1)
        Cleaned(w1) ==
          LET orders_at_price == RemoveFullyFilled(w1.orders, w1.orders_fully_filled)
          IN [w1 EXCEPT !.side_map = DropIfEmpty(MapInsert(w1.side_map, price, orders_at_price), price),
                        !.orders = <<>>,
                        !.orders_fully_filled = <<>>]
    IN Let(Let([w EXCEPT !.orders = w.side_map[price], !.orders_fully_filled = <<>>], Walked),
           Cleaned)

\* for price in ask_prices / bid_prices
RECURSIVE MatchLevels(_, _, _)
MatchLevels(w, prices, k) ==
  IF k > Len(prices) THEN w
  ELSE IF PriceBreak(w.taker_order, prices[k]) THEN w
  ELSE LET Continue(w2) ==
             IF w2.taker_order.filled_amount >= w2.taker_order.amount THEN w2
             ELSE MatchLevels(w2, prices, k + 1)
       IN Let(MatchLevel(w, prices[k]), Continue)

\* remaining_taker_order at the end of match_order
Remaining(taker_order) ==
  IF taker_order.order_type = "Limit" /\ taker_order.filled_amount < taker_order.amount
  THEN Some(taker_order)
  ELSE None

\* the struct returned, with the book it leaves and two ghosts: fills and the
\* taker's final state
MatchResult(book, trades, remaining, removed_makers, updated_makers, fills, taker_final) ==
  [book |-> book, trades |-> trades, remaining_taker_order |-> remaining,
   removed_maker_orders |-> removed_makers, updated_maker_orders |-> updated_makers,
   fills |-> fills, taker_final |-> taker_final]

\* mutant of NothingToMatch: no early return
NothingToMatchNever(taker_order) == FALSE

\* if taker_unfilled_amount <= Decimal::ZERO
NothingToMatch(taker_order) == taker_order.amount - taker_order.filled_amount <= 0

\* mutant of BookAfterMatch: the taker's unfilled remainder is rested
BookAfterMatchResting(book, taker_order, w) ==
  LET b == IF taker_order.side = "Buy"
           THEN Book(book.bids, w.side_map, w.order_locations)
           ELSE Book(w.side_map, book.asks, w.order_locations)
  IN IF ~IsSome(Remaining(w.taker_order)) THEN b
     ELSE IF taker_order.side = "Buy" THEN add_bid(b, w.taker_order)
     ELSE add_ask(b, w.taker_order)

\* the book match_order leaves: the side opposite to the taker and the index
\* are those of the walk, the taker's own side is not touched
BookAfterMatch(book, taker_order, w) ==
  IF taker_order.side = "Buy"
  THEN Book(book.bids, w.side_map, w.order_locations)
  ELSE Book(w.side_map, book.asks, w.order_locations)

match_order(book, taker_order) ==
  IF NothingToMatch(taker_order)
     THEN MatchResult(book, <<>>, Some(taker_order), <<>>, <<>>, <<>>, taker_order)
     ELSE
       LET buy == taker_order.side = "Buy"
           w0 == [side_map |-> IF buy THEN book.asks ELSE book.bids,
                  taker_order |-> taker_order,
                  trades |-> <<>>,
                  removed_maker_orders |-> <<>>,
                  updated_maker_orders |-> <<>>,
                  order_locations |-> book.order_locations,
                  fills |-> <<>>,
                  orders |-> <<>>,
                  orders_fully_filled |-> <<>>]
           Walk(prices) == MatchLevels(w0, prices, 1)
           Result(w) ==
             MatchResult(BookAfterMatch(book, taker_order, w),
                         w.trades, Remaining(w.taker_order), w.removed_maker_orders,
                         w.updated_maker_orders, w.fills, w.taker_order)
       IN Let(Let(IF buy THEN AskPrices(book.asks) ELSE BidPrices(book.bids), Walk), Result)

\* ------------------------------------------------------------------------
\* Read-only queries
\* ------------------------------------------------------------------------
\* self.bids.keys().last().cloned()
get_best_bid(book) ==
  IF DOMAIN book.bids = {} THEN None
  ELSE Some(CHOOSE p \in DOMAIN book.bids : \A q \in DOMAIN book.bids : q <= p)

\* self.asks.keys().next().cloned()
get_best_ask(book) ==
  IF DOMAIN book.asks = {} THEN None
  ELSE Some(CHOOSE p \in DOMAIN book.asks : \A q \in DOMAIN book.asks : p <= q)

\* Iterator::sum over Decimal
RECURSIVE DecimalSum(_)
DecimalSum(s) == IF s = <<>> THEN 0 ELSE s[1] + DecimalSum(Tail(s))

\* mutant of LevelAmount: a level shows the sum of the orders' amounts
LevelAmountTotal(orders) == DecimalSum([j \in 1..Len(orders) |-> orders[j].amount])

\* orders.iter().map(|o| o.amount - o.filled_amount).sum()
LevelAmount(orders) ==
  DecimalSum([j \in 1..Len(orders) |-> orders[j].amount - orders[j].filled_amount])

OrderBookLevel(price, amount) == [price |-> price, amount |-> amount]

\* iter().map(|(price, orders)| OrderBookLevel { .. }).collect(), the keys
\* taken in the order given
SnapshotLevels(m, prices) ==
  [k \in 1..Len(prices) |-> OrderBookLevel(prices[k], LevelAmount(m[prices[k]]))]

OrderBookSnapshot(bid_levels, ask_levels) == [bids |-> bid_levels, asks |-> ask_levels]

\* bids: self.bids.iter().rev(); asks: self.asks.iter()
get_order_book_snapshot(book) ==
  OrderBookSnapshot(SnapshotLevels(book.bids, SortDescending(DOMAIN book.bids)),
                    SnapshotLevels(book.asks, SortAscending(DOMAIN book.asks)))

\* orders_at_price.iter().find(|o| o.id == *order_id) in the level of ledger m
\* at this price, when there is one
FindAt(m, price, order_id) ==
  IF price \in DOMAIN m /\ Position(m[price], order_id) # 0
  THEN Some(m[price][Position(m[price], order_id)])
  ELSE None

\* the indexed price is looked up first, then the bids level, then the asks level
get_order_by_id(book, order_id) ==
  IF order_id \notin DOMAIN book.order_locations THEN None
  ELSE LET price == book.order_locations[order_id]
       IN IF IsSome(FindAt(book.bids, price, order_id))
          THEN FindAt(book.bids, price, order_id)
          ELSE FindAt(book.asks, price, order_id)

\* ------------------------------------------------------------------------
\* State machine: one action per public method
\* ------------------------------------------------------------------------
\* The book has a single owner (spec section 5): calls do not overlap.  A call
\* is one step that runs the whole method and leaves its inputs and its return
\* value in result; Return hands the value to the caller, after which the next
\* call can start.  arrival is a ghost: the ids of the orders resting in either
\* ledger, in the order of their insertion.  removed is a ghost: the ids that a
\* remove_* call has returned the order of, or that a match_order call has
\* listed in removed_maker_orders, and that have not been inserted since.
\* result also records the book and the ghost removed as the call found them.
CurrentBook == Book(bids, asks, order_locations)

LedgerOrders(m) == UNION {{m[p][j] : j \in 1..Len(m[p])} : p \in DOMAIN m}

LedgerIds(m) == {o.id : o \in LedgerOrders(m)}

RestingIds(book) == LedgerIds(book.bids) \cup LedgerIds(book.asks)

SelectIds(s, S) == SelectSeq(s, LAMBDA x : x \in S)

Call(op, side, order_id, new_amount, order) ==
  [op |-> op, side |-> side, order_id |-> order_id, new_amount |-> new_amount,
   order |-> order, ret_order |-> None, ret_status |-> "",
   trades |-> <<>>, remaining_taker_order |-> None, removed_maker_orders |-> <<>>,
   updated_maker_orders |-> <<>>, fills |-> <<>>, taker_final |-> None,
   snapshot |-> OrderBookSnapshot(<<>>, <<>>),
   before |-> CurrentBook, removed_before |-> removed]

\* Orders a caller may rest: Limit, with a price, 0 <= filled_amount < amount
RestingInputs(side) ==
  {Order(id, side, "Limit", amount, filled_amount, Some(price)) :
     <<id, price, amount, filled_amount>> \in
       {q \in Ids \X Prices \X (1..MaxAmount) \X (0..MaxAmount) : q[4] < q[3]}}

\* Takers: Limit orders carry a price, Market orders none; 0 <= filled_amount <= amount
LimitTakers(ids) ==
  {Order(id, side, "Limit", amount, filled_amount, Some(price)) :
     <<id, side, price, amount, filled_amount>> \in
       {q \in ids \X Side \X Prices \X (1..MaxAmount) \X (0..MaxAmount) : q[5] <= q[4]}}

MarketTakers(ids) ==
  {Order(id, side, "Market", amount, filled_amount, None) :
     <<id, side, amount, filled_amount>> \in
       {q \in ids \X Side \X (1..MaxAmount) \X (0..MaxAmount) : q[4] <= q[3]}}

\* In Spec the taker carries an id of its own, distinct from every maker id
TakerId == MaxId + 1

Takers == LimitTakers({TakerId}) \cup MarketTakers({TakerId})

NewAmounts == 0..(MaxAmount + 1)

Idle == [Call("idle", "Buy", 0, 0, None) EXCEPT !.before = new, !.removed_before = {}]

SeqIds(s) == {s[j] : j \in 1..Len(s)}

SetBook(book) ==
  /\ bids' = book.bids
  /\ asks' = book.asks
  /\ order_locations' = book.order_locations

Init ==
  /\ bids = new.bids
  /\ asks = new.asks
  /\ order_locations = new.order_locations
  /\ arrival = <<>>
  /\ removed = {}
  /\ result = Idle

AddBid ==
  /\ result = Idle
  /\ \E order \in RestingInputs("Buy") :
    /\ order.id \notin RestingIds(CurrentBook)
    /\ SetBook(add_bid(CurrentBook, order))
    /\ arrival' = Append(arrival, order.id)
    /\ removed' = removed \ {order.id}
    /\ result' = Call("add_bid", "Buy", order.id, 0, Some(order))

AddAsk ==
  /\ result = Idle
  /\ \E order \in RestingInputs("Sell") :
    /\ order.id \notin RestingIds(CurrentBook)
    /\ SetBook(add_ask(CurrentBook, order))
    /\ arrival' = Append(arrival, order.id)
    /\ removed' = removed \ {order.id}
    /\ result' = Call("add_ask", "Sell", order.id, 0, Some(order))

RemoveBid ==
  /\ result = Idle
  /\ \E order_id \in Ids :
    \E r \in {remove_bid(CurrentBook, order_id)} :
       /\ SetBook(r.book)
       /\ arrival' = SelectIds(arrival, RestingIds(r.book))
       /\ removed' = IF IsSome(r.ret) THEN removed \cup {order_id} ELSE removed
       /\ result' = [Call("remove", "Buy", order_id, 0, None) EXCEPT !.ret_order = r.ret]

RemoveAsk ==
  /\ result = Idle
  /\ \E order_id \in Ids :
    \E r \in {remove_ask(CurrentBook, order_id)} :
       /\ SetBook(r.book)
       /\ arrival' = SelectIds(arrival, RestingIds(r.book))
       /\ removed' = IF IsSome(r.ret) THEN removed \cup {order_id} ELSE removed
       /\ result' = [Call("remove", "Sell", order_id, 0, None) EXCEPT !.ret_order = r.ret]

UpdateBidAmount ==
  /\ result = Idle
  /\ \E order_id \in Ids, new_amount \in NewAmounts :
    \E r \in {update_bid_amount(CurrentBook, order_id, new_amount)} :
       /\ SetBook(r.book)
       /\ arrival' = arrival
       /\ removed' = removed
       /\ result' = [Call("update", "Buy", order_id, new_amount, None) EXCEPT !.ret_status = r.ret]

UpdateAskAmount ==
  /\ result = Idle
  /\ \E order_id \in Ids, new_amount \in NewAmounts :
    \E r \in {update_ask_amount(CurrentBook, order_id, new_amount)} :
       /\ SetBook(r.book)
       /\ arrival' = arrival
       /\ removed' = removed
       /\ result' = [Call("update", "Sell", order_id, new_amount, None) EXCEPT !.ret_status = r.ret]

MatchCall(taker_order, r) ==
  [Call("match_order", taker_order.side, taker_order.id, 0, Some(taker_order)) EXCEPT
     !.trades = r.trades,
     !.remaining_taker_order = r.remaining_taker_order,
     !.removed_maker_orders = r.removed_maker_orders,
     !.updated_maker_orders = r.updated_maker_orders,
     !.fills = r.fills,
     !.taker_final = Some(r.taker_final)]

MatchOrder ==
  /\ result = Idle
  /\ \E taker_order \in Takers :
    \E r \in {match_order(CurrentBook, taker_order)} :
       /\ SetBook(r.book)
       /\ arrival' = SelectIds(arrival, RestingIds(r.book))
       /\ removed' = removed \cup SeqIds(r.removed_maker_orders)
       /\ result' = MatchCall(taker_order, r)

\* the two read-only calls; both take &self
GetOrderById ==
  /\ result = Idle
  /\ \E order_id \in Ids :
       result' = [Call("get_order_by_id", "Buy", order_id, 0, None) EXCEPT
                    !.ret_order = get_order_by_id(CurrentBook, order_id)]
  /\ UNCHANGED <<bids, asks, order_locations, arrival, removed>>

GetOrderBookSnapshot ==
  /\ result = Idle
  /\ result' = [Call("get_order_book_snapshot", "Buy", 0, 0, None) EXCEPT
                  !.snapshot = get_order_book_snapshot(CurrentBook)]
  /\ UNCHANGED <<bids, asks, order_locations, arrival, removed>>

Return ==
  /\ result # Idle
  /\ result' = Idle
  /\ UNCHANGED <<bids, asks, order_locations, arrival, removed>>

Next ==
  \/ AddBid
  \/ AddAsk
  \/ RemoveBid
  \/ RemoveAsk
  \/ UpdateBidAmount
  \/ UpdateAskAmount
  \/ MatchOrder
  \/ GetOrderById
  \/ GetOrderBookSnapshot
  \/ Return

Spec == Init /\ [][Next]_vars

\* ------------------------------------------------------------------------
\* The caller's discipline of spec section 3: every Limit order is first passed
\* to match_order, and the remainder it returns, when present, is rested.
\* ------------------------------------------------------------------------
PendingRest == result.op = "match_order" /\ IsSome(result.remaining_taker_order)

CallerMatch ==
  /\ result = Idle
  /\ \E taker_order \in LimitTakers(Ids) :
    /\ taker_order.id \notin RestingIds(CurrentBook)
    /\ \E r \in {match_order(CurrentBook, taker_order)} :
          /\ SetBook(r.book)
          /\ arrival' = SelectIds(arrival, RestingIds(r.book))
          /\ removed' = removed \cup SeqIds(r.removed_maker_orders)
          /\ result' = MatchCall(taker_order, r)

CallerRestBid ==
  /\ PendingRest
  /\ Unwrap(result.remaining_taker_order).side = "Buy"
  /\ LET order == Unwrap(result.remaining_taker_order)
     IN /\ SetBook(add_bid(CurrentBook, order))
        /\ arrival' = Append(arrival, order.id)
        /\ removed' = removed \ {order.id}
        /\ result' = Call("add_bid", "Buy", order.id, 0, Some(order))

CallerRestAsk ==
  /\ PendingRest
  /\ Unwrap(result.remaining_taker_order).side = "Sell"
  /\ LET order == Unwrap(result.remaining_taker_order)
     IN /\ SetBook(add_ask(CurrentBook, order))
        /\ arrival' = Append(arrival, order.id)
        /\ removed' = removed \ {order.id}
        /\ result' = Call("add_ask", "Sell", order.id, 0, Some(order))

CallerReturn ==
  /\ result # Idle
  /\ ~PendingRest
  /\ result' = Idle
  /\ UNCHANGED <<bids, asks, order_locations, arrival, removed>>

NextCaller ==
  \/ CallerMatch
  \/ CallerRestBid
  \/ CallerRestAsk
  \/ CallerReturn

SpecCaller == Init /\ [][NextCaller]_vars

\* ------------------------------------------------------------------------
\* Vocabulary of the properties
\* ------------------------------------------------------------------------
AllIds == Ids \cup {TakerId}

\* the price levels of ledger m that hold an order with this id
LevelsOf(m, id) == {p \in DOMAIN m : \E j \in 1..Len(m[p]) : m[p][j].id = id}

\* the resting order with this id in ledger m (when LevelsOf(m, id) is not empty)
OrderOf(m, id) == CHOOSE o \in LedgerOrders(m) : o.id = id

Unfilled(o) == o.amount - o.filled_amount

\* a step that runs match_order / update_*_amount / remove_*
MatchStep == result = Idle /\ result'.op = "match_order"

UpdateStep == result = Idle /\ result'.op = "update"

RemoveStep == result = Idle /\ result'.op = "remove"

\* the ledger a taker of this side is matched against
Opposite(book, side) == IF side = "Buy" THEN book.asks ELSE book.bids

RECURSIVE TradedAmount(_, _)
TradedAmount(trades, k) ==
  IF k = 0 THEN 0 ELSE trades[k].amount + TradedAmount(trades, k - 1)

RECURSIVE TradedAgainst(_, _, _)
TradedAgainst(trades, k, id) ==
  IF k = 0 THEN 0
  ELSE (IF trades[k].maker_order_id = id THEN trades[k].amount ELSE 0)
       + TradedAgainst(trades, k - 1, id)

ArrivalPos(id) == Position([j \in 1..Len(arrival) |-> [id |-> arrival[j]]], id)

\* ------------------------------------------------------------------------
\* Properties
\* ------------------------------------------------------------------------

\* C1 (index consistency): an id is in order_locations if and only if an order
\* with that id rests in exactly one of the two ledgers, at exactly one price
\* level, and the indexed price is the price of that level.
C1_IndexConsistency ==
  \A id \in AllIds :
    LET inBids == LevelsOf(bids, id)
        inAsks == LevelsOf(asks, id)
    IN /\ id \in DOMAIN order_locations =>
            \/ inBids = {order_locations[id]} /\ inAsks = {}
            \/ inAsks = {order_locations[id]} /\ inBids = {}
       /\ (inBids # {} \/ inAsks # {}) => id \in DOMAIN order_locations

\* C2 (no crossing): under the match-then-rest discipline, best bid < best ask
\* whenever both sides are non-empty.
C2_NoCrossing ==
  LET bb == get_best_bid(CurrentBook)
      ba == get_best_ask(CurrentBook)
  IN (IsSome(bb) /\ IsSome(ba)) => Unwrap(bb) < Unwrap(ba)

\* C3 (price-time priority): the trades of one match_order call are in
\* non-decreasing maker price order for a Buy taker and non-increasing for a
\* Sell taker; trades at one price follow the insertion order of their makers;
\* and when a maker is traded against, no maker of the opposite side that is
\* better priced, or rests at the same price and was inserted earlier, has
\* unfilled quantity left.
C3_Priority(opp, side, trades) ==
  LET better(p, q) == IF side = "Buy" THEN p < q ELSE p > q
  IN /\ \A i, j \in 1..Len(trades) :
          i < j => ~better(trades[j].price, trades[i].price)
     /\ \A i, j \in 1..Len(trades) :
          (i < j /\ trades[i].price = trades[j].price) =>
            ArrivalPos(trades[i].maker_order_id) < ArrivalPos(trades[j].maker_order_id)
     /\ \A k \in 1..Len(trades) :
          \A o \in LedgerOrders(opp) :
            (\/ better(Unwrap(o.price), trades[k].price)
             \/ /\ Unwrap(o.price) = trades[k].price
                /\ ArrivalPos(o.id) < ArrivalPos(trades[k].maker_order_id))
            => Unfilled(o) - TradedAgainst(trades, k - 1, o.id) <= 0

C3_PriceTimePriority ==
  [][MatchStep => C3_Priority(Opposite(CurrentBook, result'.side), result'.side, result'.trades)]_vars

\* C3 witness: a match that traded against two makers of one price level, the
\* earlier-inserted one first.
C3_Witness ==
  /\ result.op = "match_order"
  /\ Len(result.trades) = 2
  /\ result.trades[1].price = result.trades[2].price
  /\ result.trades[1].maker_order_id > result.trades[2].maker_order_id

\* C4 (resting orders are unfilled): every order in either ledger has
\* filled_amount < amount (orders are inserted with filled_amount < amount).
C4_RestingUnfilled ==
  \A o \in LedgerOrders(bids) \cup LedgerOrders(asks) : o.filled_amount < o.amount

\* C5 (amount conservation): in one match_order call every trade has a positive
\* amount; each trade raises the filled_amount of the taker and of its maker by
\* exactly the trade amount; the maker before the trade is the order resting in
\* the book at call time; no maker's filled_amount exceeds its amount; a maker
\* left partially filled rests in the book with the raised filled_amount; and
\* the trade amounts sum to at most the taker's remaining amount at call time.
C5_Conserved(opp, oppAfter, r) ==
  LET taker == Unwrap(r.order)
      n == Len(r.trades)
  IN /\ Len(r.fills) = n
     /\ \A k \in 1..n :
          LET f == r.fills[k]
              t == r.trades[k]
          IN /\ t.amount > 0
             /\ t.maker_order_id = f.maker_before.id
             /\ t.taker_order_id = taker.id
             /\ f.maker_before \in LedgerOrders(opp)
             /\ f.taker_before = (IF k = 1 THEN taker ELSE r.fills[k - 1].taker_after)
             /\ f.taker_after = [f.taker_before EXCEPT !.filled_amount = @ + t.amount]
             /\ f.maker_after = [f.maker_before EXCEPT !.filled_amount = @ + t.amount]
             /\ f.maker_after.filled_amount <= f.maker_after.amount
             /\ f.maker_after.filled_amount < f.maker_after.amount =>
                  f.maker_after \in LedgerOrders(oppAfter)
     /\ Unwrap(r.taker_final) = (IF n = 0 THEN taker ELSE r.fills[n].taker_after)
     /\ TradedAmount(r.trades, n) <= taker.amount - taker.filled_amount

C5_AmountConservation ==
  [][MatchStep => C5_Conserved(Opposite(CurrentBook, result'.side),
                               Opposite(Book(bids', asks', order_locations'), result'.side),
                               result')]_vars

\* C5 witness: a match with two trades, the second one a partial fill of its maker.
C5_Witness ==
  /\ result.op = "match_order"
  /\ Len(result.trades) = 2
  /\ Len(result.updated_maker_orders) = 1
  /\ Unwrap(result.taker_final).filled_amount = Unwrap(result.taker_final).amount

\* C6 (price bound and execution price): every trade is priced at the price of
\* the level its maker rested in; for a Limit taker that price is never above
\* the limit of a Buy nor below the limit of a Sell; a Market taker is not
\* stopped by any price: when it ends unfilled, no unfilled quantity is left on
\* the opposite side.
C6_PriceBound(opp, oppAfter, r) ==
  LET taker == Unwrap(r.order)
  IN /\ \A k \in 1..Len(r.trades) :
          LET t == r.trades[k]
          IN /\ LevelsOf(opp, t.maker_order_id) = {t.price}
             /\ taker.order_type = "Limit" =>
                  IF taker.side = "Buy" THEN t.price <= Unwrap(taker.price)
                  ELSE t.price >= Unwrap(taker.price)
     /\ (/\ taker.order_type = "Market"
         /\ Unwrap(r.taker_final).filled_amount < Unwrap(r.taker_final).amount)
        => \A o \in LedgerOrders(oppAfter) : Unfilled(o) <= 0

C6_PriceBoundAndExecutionPrice ==
  [][MatchStep => C6_PriceBound(Opposite(CurrentBook, result'.side),
                                Opposite(Book(bids', asks', order_locations'), result'.side),
                                result')]_vars

\* C6 witness: a Limit taker traded at a maker price that differs from its own
\* limit, while a level beyond its limit was left untouched.
C6_Witness ==
  /\ result.op = "match_order"
  /\ Unwrap(result.order).order_type = "Limit"
  /\ Len(result.trades) = 1
  /\ result.trades[1].price # Unwrap(Unwrap(result.order).price)
  /\ Unwrap(result.taker_final).filled_amount < Unwrap(result.taker_final).amount
  /\ Opposite(CurrentBook, result.side) # EmptyMap

\* C7 (taker remainder): remaining_taker_order is present exactly when the
\* taker is a Limit order that ends with filled_amount < amount.
C7_RemainderReporting ==
  result.op = "match_order" =>
    LET t == Unwrap(result.taker_final)
    IN IsSome(result.remaining_taker_order)
         <=> (t.order_type = "Limit" /\ t.filled_amount < t.amount)

\* C8 (amendment): update_bid_amount / update_ask_amount fails and leaves the
\* ledgers and the index unchanged when the id does not rest on the named
\* side, or the new amount is <= 0, above the order's amount or below its
\* filled_amount; in every other case it succeeds and sets the order's amount.
C8_Amend(book, bookAfter, r) ==
  LET m == SideMap(book, r.side)
      resting == LevelsOf(m, r.order_id) # {}
      o == OrderOf(m, r.order_id)
  IN IF \/ ~resting
        \/ r.new_amount <= 0
        \/ r.new_amount > o.amount
        \/ r.new_amount < o.filled_amount
     THEN r.ret_status # "Ok" /\ bookAfter = book
     ELSE /\ r.ret_status = "Ok"
          /\ [o EXCEPT !.amount = r.new_amount] \in LedgerOrders(SideMap(bookAfter, r.side))

C8_AmendAllOrNothing ==
  [][UpdateStep => C8_Amend(CurrentBook, Book(bids', asks', order_locations'), result')]_vars

\* C9 (idempotent removal): for an id resting on the named side, remove_bid /
\* remove_ask returns the order, and a second call with the same id returns
\* none and leaves the ledgers and the index as the first call left them.
C9_Remove(book, bookAfter, r) ==
  LevelsOf(SideMap(book, r.side), r.order_id) # {} =>
    /\ r.ret_order = Some(OrderOf(SideMap(book, r.side), r.order_id))
    /\ remove_order(bookAfter, r.order_id, r.side) = [book |-> bookAfter, ret |-> None]

C9_IdempotentRemoval ==
  [][RemoveStep => C9_Remove(CurrentBook, Book(bids', asks', order_locations'), result')]_vars

\* C10 (no empty price level): every price key of bids and of asks maps to a
\* non-empty queue.
C10_NoEmptyLevel ==
  /\ \A p \in DOMAIN bids : bids[p] # <<>>
  /\ \A p \in DOMAIN asks : asks[p] # <<>>

\* C10 witness: a match filled the only maker of a price level, which is gone
\* from the ledger, while another level of that side remains.
C10_Witness ==
  /\ result.op = "match_order"
  /\ Len(result.removed_maker_orders) = 1
  /\ Len(result.trades) = 1
  /\ result.trades[1].price \notin DOMAIN Opposite(CurrentBook, result.side)
  /\ Opposite(CurrentBook, result.side) # EmptyMap

\* the makers whose filled_amount reached their amount in the call recorded in r
FullyFilledInCall(r) ==
  {r.fills[k].maker_after.id : k \in {j \in 1..Len(r.fills) :
     r.fills[j].maker_after.filled_amount >= r.fills[j].maker_after.amount}}

\* C11 (frame of match_order): match_order never rests the taker and mutates
\* only the opposite side: a Buy taker leaves the bids ledger unchanged and a
\* Sell taker the asks ledger, no order comes to rest, no entry is added to the
\* order index or moved, and the only index entries removed are those of makers
\* fully filled in this call.
C11_MatchFrame ==
  result.op = "match_order" =>
    /\ result.side = "Buy" => bids = result.before.bids
    /\ result.side = "Sell" => asks = result.before.asks
    /\ RestingIds(CurrentBook) \subseteq RestingIds(result.before)
    /\ DOMAIN order_locations \subseteq DOMAIN result.before.order_locations
    /\ \A id \in DOMAIN order_locations :
         order_locations[id] = result.before.order_locations[id]
    /\ (DOMAIN result.before.order_locations) \ (DOMAIN order_locations)
         \subseteq FullyFilledInCall(result)

\* C11 witness: a Limit taker traded, filled a maker whose index entry is gone,
\* keeps an unfilled remainder, and its own side holds orders.
C11_Witness ==
  /\ result.op = "match_order"
  /\ result.trades # <<>>
  /\ IsSome(result.remaining_taker_order)
  /\ (DOMAIN result.before.order_locations) \ (DOMAIN order_locations) # {}
  /\ SideMap(CurrentBook, result.side) # EmptyMap

C13_AmendFrame ==
  (result.op = "update" /\ result.ret_status = "Ok") =>
    LET m0 == SideMap(result.before, result.side)
        m1 == SideMap(CurrentBook, result.side)
        other == IF result.side = "Buy" THEN "Sell" ELSE "Buy"
    IN /\ SideMap(CurrentBook, other) = SideMap(result.before, other)
       /\ order_locations = result.before.order_locations
       /\ DOMAIN m1 = DOMAIN m0
       /\ \A p \in DOMAIN m0 :
            /\ Len(m1[p]) = Len(m0[p])
            /\ \A j \in 1..Len(m0[p]) :
                 m1[p][j] = IF m0[p][j].id = result.order_id
                            THEN [m0[p][j] EXCEPT !.amount = result.new_amount]
                            ELSE m0[p][j]

\* C13 witness: the order at the head of a queue of two was amended to a
\* smaller amount.
C13_Witness ==
  /\ result.op = "update"
  /\ result.ret_status = "Ok"
  /\ \E p \in DOMAIN SideMap(result.before, result.side) :
       /\ Len(SideMap(result.before, result.side)[p]) = 2
       /\ SideMap(result.before, result.side)[p][1].id = result.order_id
       /\ SideMap(result.before, result.side)[p][1].amount > result.new_amount

\* C14 (lookup by id): in every reachable book state and for every id,
\* get_order_by_id returns a copy of the order with that id if such an order
\* rests in either ledger, and none otherwise; the call does not change the book.
C14_LookupById ==
  result.op = "get_order_by_id" =>
    /\ CurrentBook = result.before
    /\ result.ret_order =
         IF result.order_id \in LedgerIds(bids) THEN Some(OrderOf(bids, result.order_id))
         ELSE IF result.order_id \in LedgerIds(asks) THEN Some(OrderOf(asks, result.order_id))
         ELSE None

\* the unfilled quantity of the first k orders of a queue
RECURSIVE UnfilledUpTo(_, _)
UnfilledUpTo(orders, k) ==
  IF k = 0 THEN 0 ELSE Unfilled(orders[k]) + UnfilledUpTo(orders, k - 1)

\* levels lists one level per price of ledger m, each with the unfilled
\* quantity resting at its price
C15_Levels(levels, m) ==
  /\ Len(levels) = Cardinality(DOMAIN m)
  /\ {levels[k].price : k \in 1..Len(levels)} = DOMAIN m
  /\ \A k \in 1..Len(levels) :
       levels[k].amount = UnfilledUpTo(m[levels[k].price], Len(m[levels[k].price]))

\* C15 (snapshot): get_order_book_snapshot lists exactly one level per resting
\* price on each side, bids in strictly descending and asks in strictly
\* ascending price order, each level's amount being the sum of
\* amount - filled_amount over the orders at that price, and the call leaves
\* the book unchanged.
C15_Snapshot ==
  result.op = "get_order_book_snapshot" =>
    /\ CurrentBook = result.before
    /\ C15_Levels(result.snapshot.bids, bids)
    /\ C15_Levels(result.snapshot.asks, asks)
    /\ \A k \in 1..(Len(result.snapshot.bids) - 1) :
         result.snapshot.bids[k].price > result.snapshot.bids[k + 1].price
    /\ \A k \in 1..(Len(result.snapshot.asks) - 1) :
         result.snapshot.asks[k].price < result.snapshot.asks[k + 1].price

\* C15 witness: a snapshot of a book with two bid levels, one of them holding
\* a partially filled order.
C15_Witness ==
  /\ result.op = "get_order_book_snapshot"
  /\ Len(result.snapshot.bids) = 2
  /\ \E p \in DOMAIN bids : bids[p][1].filled_amount > 0

\* C16 (removal clears the index): after remove_bid(id) or remove_ask(id)
\* returns, for any id and whatever the result, id is not in the order index;
\* and when id was not in the index before the call, the call returns none and
\* changes nothing.
C16_RemoveClearsIndex ==
  result.op = "remove" =>
    /\ result.order_id \notin DOMAIN order_locations
    /\ result.order_id \notin DOMAIN result.before.order_locations =>
         (result.ret_order = None /\ CurrentBook = result.before)

\* C16 witness: the id was indexed at a price that is a level of the named
\* side, no order with this id was in that level, the call returned none and
\* the index entry is gone.
C16_Witness ==
  /\ result.op = "remove"
  /\ result.ret_order = None
  /\ result.order_id \in DOMAIN result.before.order_locations
  /\ result.before.order_locations[result.order_id]
       \in DOMAIN SideMap(result.before, result.side)
  /\ result.order_id \notin DOMAIN order_locations

\* the ids of a queue, in queue order, without those in gone
KeptIds(orders, gone) ==
  SelectSeq([j \in 1..Len(orders) |-> orders[j].id], LAMBDA id : id \notin gone)

\* the makers of ledger m that the trades bring to filled_amount >= amount
FilledByTrades(m, trades) ==
  {id \in LedgerIds(m) :
     /\ TradedAgainst(trades, Len(trades), id) > 0
     /\ OrderOf(m, id).filled_amount + TradedAgainst(trades, Len(trades), id)
          >= OrderOf(m, id).amount}

\* C17 (maker bookkeeping): removed_maker_orders contains exactly the ids of the
\* makers whose filled_amount reached their amount during this call, and each
\* of them is absent from the ledger and the index afterwards; every order in
\* updated_maker_orders still rests in the book after the call with exactly the
\* recorded amount and filled_amount; the orders left at a level keep their
\* relative order.
C17_MakerBookkeeping ==
  result.op = "match_order" =>
    LET opp0 == Opposite(result.before, result.side)
        opp1 == Opposite(CurrentBook, result.side)
        gone == SeqIds(result.removed_maker_orders)
    IN /\ Len(result.removed_maker_orders) = Cardinality(gone)
       /\ gone = FilledByTrades(opp0, result.trades)
       /\ gone \cap RestingIds(CurrentBook) = {}
       /\ gone \cap DOMAIN order_locations = {}
       /\ \A k \in 1..Len(result.updated_maker_orders) :
            result.updated_maker_orders[k] \in LedgerOrders(opp1)
       /\ DOMAIN opp1 \subseteq DOMAIN opp0
       /\ \A p \in DOMAIN opp0 :
            KeptIds(opp0[p], gone) = IF p \in DOMAIN opp1 THEN KeptIds(opp1[p], {}) ELSE <<>>

\* C17 witness: a match filled the maker at the head of a level and partially
\* filled the next maker of the same level, which stays.
C17_Witness ==
  /\ result.op = "match_order"
  /\ Len(result.trades) = 2
  /\ result.trades[1].price = result.trades[2].price
  /\ result.removed_maker_orders = <<result.trades[1].maker_order_id>>
  /\ Len(result.updated_maker_orders) = 1
  /\ result.updated_maker_orders[1].id = result.trades[2].maker_order_id

\* a price the taker accepts: asks <= limit for a Limit Buy, bids >= limit for
\* a Limit Sell, any price for a Market taker
Eligible(taker, p) ==
  \/ taker.order_type = "Market"
  \/ taker.side = "Buy" /\ p <= Unwrap(taker.price)
  \/ taker.side = "Sell" /\ p >= Unwrap(taker.price)

\* the unfilled quantity of ledger m at the eligible prices up to p
RECURSIVE EligibleUnfilled(_, _, _)
EligibleUnfilled(m, taker, p) ==
  IF p = 0 THEN 0
  ELSE (IF p \in DOMAIN m /\ Eligible(taker, p) THEN UnfilledUpTo(m[p], Len(m[p])) ELSE 0)
       + EligibleUnfilled(m, taker, p - 1)

\* C18 (maximal fill): when match_order returns, either the taker is fully
\* filled or no order with unfilled quantity remains on the opposite side at a
\* price eligible for the taker; equivalently the total traded amount equals the
\* minimum of the taker's remaining amount at call time and the eligible
\* opposite-side unfilled quantity.
C18_MaximalFill ==
  result.op = "match_order" =>
    LET taker == Unwrap(result.order)
        opp0 == Opposite(result.before, result.side)
        opp1 == Opposite(CurrentBook, result.side)
        traded == TradedAmount(result.trades, Len(result.trades))
    IN /\ \/ taker.filled_amount + traded >= taker.amount
          \/ \A p \in DOMAIN opp1 : Eligible(taker, p) =>
               \A j \in 1..Len(opp1[p]) : Unfilled(opp1[p][j]) <= 0
       /\ traded = DecimalMin(Unfilled(taker), EligibleUnfilled(opp0, taker, MaxPrice))

\* C18 witness: a Limit taker traded at its limit price, is not fully filled,
\* and the opposite side still holds an order, at a price it does not accept.
C18_Witness ==
  /\ result.op = "match_order"
  /\ result.trades # <<>>
  /\ Unwrap(result.order).order_type = "Limit"
  /\ result.trades[Len(result.trades)].price = Unwrap(Unwrap(result.order).price)
  /\ IsSome(result.remaining_taker_order)
  /\ Opposite(CurrentBook, result.side) # EmptyMap

\* the order with this id resting in either ledger of book
RestingOrder(book, id) ==
  CHOOSE o \in LedgerOrders(book.bids) \cup LedgerOrders(book.asks) : o.id = id

\* C19 (monotone order lifecycle): over any sequence of operations, while an
\* order rests in the book its amount never increases, its filled_amount never
\* decreases, and its price and side never change; in particular an amendment
\* to a value above the amount set by an earlier successful amendment fails.
\* Stated for every call and every order resting before and after it.
C19_MonotoneLifecycle ==
  /\ \A id \in RestingIds(result.before) \cap RestingIds(CurrentBook) :
       LET o0 == RestingOrder(result.before, id)
           o1 == RestingOrder(CurrentBook, id)
       IN /\ o1.amount <= o0.amount
          /\ o1.filled_amount >= o0.filled_amount
          /\ o1.price = o0.price
          /\ o1.side = o0.side
          /\ LevelsOf(bids, id) = LevelsOf(result.before.bids, id)
          /\ LevelsOf(asks, id) = LevelsOf(result.before.asks, id)
  /\ (/\ result.op = "update"
      /\ result.order_id \in RestingIds(result.before)
      /\ result.new_amount > RestingOrder(result.before, result.order_id).amount)
     => result.ret_status # "Ok"

\* C19 witness: an order resting with filled_amount = amount, which only an
\* earlier successful amendment produces, was the target of an amendment to a
\* larger amount, which failed.
C19_Witness ==
  /\ result.op = "update"
  /\ result.ret_status = "InvalidAmount"
  /\ result.order_id \in LedgerIds(SideMap(CurrentBook, result.side))
  /\ LET o == OrderOf(SideMap(CurrentBook, result.side), result.order_id)
     IN /\ o.filled_amount = o.amount
        /\ result.new_amount > o.amount
        /\ result.new_amount <= MaxAmount

\* the unfilled quantity of the first k orders of a queue, those with an id in
\* gone left out
RECURSIVE UnfilledWithout(_, _, _)
UnfilledWithout(orders, k, gone) ==
  IF k = 0 THEN 0
  ELSE (IF orders[k].id \in gone THEN 0 ELSE Unfilled(orders[k]))
       + UnfilledWithout(orders, k - 1, gone)

\* no level of the snapshot of ledger m counts quantity of an id in gone
C20_NotCounted(levels, m, gone) ==
  \A k \in 1..Len(levels) :
    levels[k].price \in DOMAIN m =>
      levels[k].amount = UnfilledWithout(m[levels[k].price], Len(m[levels[k].price]), gone)

\* C20 (a removed order never trades again): once remove_bid / remove_ask has
\* returned the order for an id, or a match_order call has listed the id in
\* removed_maker_orders, no later match_order call produces a trade whose
\* maker_order_id is that id and no later snapshot counts its quantity, unless an
\* order with that id is inserted again.
C20_RemovedNeverTrades ==
  /\ result.op = "match_order" =>
       \A k \in 1..Len(result.trades) :
         result.trades[k].maker_order_id \notin result.removed_before
  /\ result.op = "get_order_book_snapshot" =>
       /\ C20_NotCounted(result.snapshot.bids, bids, result.removed_before)
       /\ C20_NotCounted(result.snapshot.asks, asks, result.removed_before)

\* C20 witness: a match_order call produced a trade while an id removed by an
\* earlier call had not been inserted again.
C20_Witness ==
  /\ result.op = "match_order"
  /\ result.trades # <<>>
  /\ result.removed_before # {}

\* C21 (at most one updated maker): in every match_order call at most one maker
\* ends up in updated_maker_orders, it is the maker of the last trade produced,
\* the taker is fully filled whenever updated_maker_orders is non-empty, and the
\* number of trades equals the number of removed makers plus the number of
\* updated makers.
C21_AtMostOneUpdatedMaker ==
  result.op = "match_order" =>
    LET taker == Unwrap(result.order)
        traded == TradedAmount(result.trades, Len(result.trades))
    IN /\ Len(result.updated_maker_orders) <= 1
       /\ result.updated_maker_orders # <<>> =>
            /\ result.trades # <<>>
            /\ result.updated_maker_orders[1].id
                 = result.trades[Len(result.trades)].maker_order_id
            /\ taker.filled_amount + traded >= taker.amount
            /\ ~IsSome(result.remaining_taker_order)
       /\ Len(result.trades)
            = Len(result.removed_maker_orders) + Len(result.updated_maker_orders)

\* C21 witness: a match traded at two price levels, filled the maker of the
\* first and left the maker of the second, the last trade, partially filled.
C21_Witness ==
  /\ result.op = "match_order"
  /\ Len(result.trades) = 2
  /\ result.trades[1].price # result.trades[2].price
  /\ Len(result.removed_maker_orders) = 1
  /\ Len(result.updated_maker_orders) = 1
  /\ Unfilled(result.updated_maker_orders[1]) > 0

====
